---- MODULE Spec2Model ----
(***************************************************************************)
(* Model of src/image_classification.py: the distillation epoch loop       *)
(* (distill), the validation pass (evaluate) with its cross-process metric *)
(* synchronisation, the best-checkpoint protocol and the post-training     *)
(* checkpoint load of main().                                              *)
(*                                                                         *)
(* Scores are exact rationals <<numerator, denominator>> in lowest terms.  *)
(* One TLA+ process per rank; the collectives (all-reduce of the metric    *)
(* registry, end-of-training barrier) are joint steps of all ranks.        *)
(***************************************************************************)
EXTENDS Integers, Naturals, Sequences, FiniteSets, TLC

\* ---- bounds of the model ------------------------------------------------
MaxEpochs == 2
MaxSamples == 2
MaxWindow == 2
MaxUpdates == 3
MaxSyncs == 2

\* ---- inputs drawn in Init or per batch ----------------------------------
\* world sizes of the runs: a single process, and a distributed run with one
\* main and one non-main process
WorldSizes == {1, 2}
Acc1Vals == {0, 100}
BatchSizes == {1, 2}
StoredBests == {<<50, 1>>, <<100, 1>>}
\* processes, values and weights of the smoothed-metric runs
MetricProcs == {0, 1}
MetricVals == {1, 3}
MetricWeights == {1, 2}

\* program state
VARIABLES world_size, start_epoch, num_epochs, fs, pc, epoch, best, meter
\* history of the run, read by the properties only
VARIABLES file0, lastVal, seenMax, writes, log, samples, reads
\* the student model: the object passed to distill(), its training mode and
\* weights on each process, the weights stored at the checkpoint path
VARIABLES student_model, device_cuda, training, evalModel, weights, ckpt_weights
\* history: mode at the call of evaluate(), exceptions raised, objects given
\* to save_ckpt, weights used by the final test pass
VARIABLES modeBefore, raised, savedModels, tested
\* a smoothed metric on each process, and the update calls made on it
VARIABLES smoothed, updates, syncs, dirty

metricVars == <<smoothed, updates, syncs, dirty>>

modelVars == <<training, modeBefore, raised, evalModel, savedModels, weights,
               ckpt_weights, tested>>

vars == <<world_size, start_epoch, num_epochs, fs, pc, epoch, best, meter,
          file0, lastVal, seenMax, writes, log, samples, reads,
          student_model, device_cuda, modelVars, metricVars>>

Procs == 0 .. (world_size - 1)

\* ---- rationals ----------------------------------------------------------
RECURSIVE GCD(_, _)
GCD(a, b) == IF b = 0 THEN a ELSE GCD(b, a % b)

Norm(n, d) == LET g == GCD(n, d) IN <<n \div g, d \div g>>

Zero == <<0, 1>>

Lt(a, b) == a[1] * b[2] < b[1] * a[2]

Max2(a, b) == IF Lt(a, b) THEN b ELSE a

Leq(a, b) == a[1] * b[2] <= b[1] * a[2]

\* ---- distributed coordinator -------------------------------------------
distributed == world_size > 1

is_main_process(p) == p = 0

\* ---- smoothed metric (count / total part) -------------------------------
NewMeter == [count |-> 0, total |-> 0]

MeterUpdate(m, value, n) == [count |-> m.count + n, total |-> m.total + value * n]

global_avg(m) == Norm(m.total, m.count)

RECURSIVE SumCount(_, _)
SumCount(ms, S) ==
    IF S = {} THEN 0
    ELSE LET p == CHOOSE x \in S : TRUE IN ms[p].count + SumCount(ms, S \ {p})

RECURSIVE SumTotal(_, _)
SumTotal(ms, S) ==
    IF S = {} THEN 0
    ELSE LET p == CHOOSE x \in S : TRUE IN ms[p].total + SumTotal(ms, S \ {p})

\* all-reduce sum of (count, total); every process gets the global totals
AllReduced(ms) == [count |-> SumCount(ms, DOMAIN ms), total |-> SumTotal(ms, DOMAIN ms)]

synchronize_between_processes(ms) == [p \in DOMAIN ms |-> AllReduced(ms)]

\* ---- smoothed metric (window part) ----------------------------------------
NewSmoothed(window_size) ==
    [window_size |-> window_size, deque |-> <<>>, count |-> 0, total |-> 0]

PushKeepOldest(d, value, maxlen) == IF Len(d) < maxlen THEN Append(d, value) ELSE d

\* append to a bounded window, dropping the oldest entries beyond capacity
Push(d, value, maxlen) ==
    IF Len(d) < maxlen THEN Append(d, value) ELSE Append(Tail(d), value)

SmoothedUpdateWindowedTotals(s, value, n) ==
    LET d == Push(s.deque, value, s.window_size) IN
    [window_size |-> s.window_size, deque |-> d,
     count |-> IF Len(s.deque) < s.window_size THEN s.count + n ELSE s.count,
     total |-> IF Len(s.deque) < s.window_size THEN s.total + value * n ELSE s.total]

SmoothedUpdate(s, value, n) ==
    [window_size |-> s.window_size,
     deque |-> Push(s.deque, value, s.window_size),
     count |-> MeterUpdate(s, value, n).count,
     total |-> MeterUpdate(s, value, n).total]

SmoothedSynchronizedCountOnly(ss) ==
    [p \in DOMAIN ss |-> [ss[p] EXCEPT !.count = AllReduced(ss).count]]

\* the window is not synchronised, only (count, total)
SmoothedSynchronized(ss) ==
    [p \in DOMAIN ss |-> [ss[p] EXCEPT !.count = AllReduced(ss).count,
                                       !.total = AllReduced(ss).total]]

\* ---- checkpoint store ---------------------------------------------------
Absent == [exists |-> FALSE, complete |-> FALSE, best |-> Zero]

Record(b, c) == [exists |-> TRUE, complete |-> c, best |-> b]

SaveTargetInPlace == "path"

\* save_ckpt writes to a temporary location, then renames in place
SaveTarget == "tmp"

\* ---- evaluate(): per-batch accumulation and synchronisation -------------
EvalNotSynced(ms) == ms

EvalSynced(ms) == synchronize_between_processes(ms)

EvalBatchUpdateUnweighted(m, acc1, batch_size) == MeterUpdate(m, acc1, 1)

EvalBatchUpdate(m, acc1, batch_size) == MeterUpdate(m, acc1, batch_size)

\* the batches (acc1, batch_size) a process's validation loader can produce
Batches == Acc1Vals \X BatchSizes

RECURSIVE NumSamples(_, _)
NumSamples(batches, i) ==
    IF i > Len(batches) THEN 0 ELSE batches[i][2] + NumSamples(batches, i + 1)

RECURSIVE NumCorrect(_, _)
NumCorrect(batches, i) ==
    IF i > Len(batches) THEN 0
    ELSE batches[i][1] * batches[i][2] + NumCorrect(batches, i + 1)

DataLoaders ==
    {batches \in UNION {[1 .. k -> Batches] : k \in 1 .. MaxSamples} :
        NumSamples(batches, 1) <= MaxSamples}

RECURSIVE AfterBatches(_, _, _)
AfterBatches(m, batches, i) ==
    IF i > Len(batches) THEN m
    ELSE AfterBatches(EvalBatchUpdate(m, batches[i][1], batches[i][2]), batches, i + 1)

\* ---- distill(): decisions -----------------------------------------------
ResumeBestIgnoreCkpt(f) == Zero

ResumeBest(f) == IF f.exists THEN f.best ELSE Zero

ShouldSaveAnyRank(p, v) == Lt(best[p], v)

ShouldSaveGeq(p, v) == Leq(best[p], v) /\ is_main_process(p)

ShouldSaveAlways(p, v) == is_main_process(p)

ShouldSave(p, v) == Lt(best[p], v) /\ is_main_process(p)

LoopContinuesInclusive(e) == e <= num_epochs

LoopContinues(e) == e < num_epochs

NeedsBarrierNever == FALSE

NeedsBarrier == distributed

JoinsBarrierMainOnly(p) == NeedsBarrier /\ is_main_process(p)

\* line 129 is outside every rank-dependent branch: each process takes it
JoinsBarrier(p) == NeedsBarrier

AfterFailureRetry(p) == pc[p]

\* no step of distill() or main() is inside a try block
AfterFailure(p) == "failed"

\* ---- the student model -------------------------------------------------
\* weights as built by get_model(), which loads the file at the student
\* path when there is one; afterwards the epoch last trained
InitialWeights == -1

NotTested == -2

check_if_wrapped(model) == model \in {"student_wrapper", "eval_wrapper"}

module_of(model) == IF check_if_wrapped(model) THEN "student" ELSE model

\* evaluate(), lines 70-73: the name model is rebound locally
EvalModel(model) ==
    IF distributed THEN "eval_wrapper"
    ELSE IF device_cuda THEN "eval_wrapper" ELSE model

student_model_without_ddp ==
    IF check_if_wrapped(student_model) THEN module_of(student_model) ELSE student_model

SavedModelAsPassed == student_model

\* first argument of save_ckpt, line 125
SavedModel == student_model_without_ddp

LoadedWeightsNone(p) == weights[p]

\* load_ckpt(..., model=student_model_without_ddp, strict=True), line 159
LoadedWeights(p) == ckpt_weights

AfterLoopTest(e) == IF LoopContinues(e) THEN "pre" ELSE "barrier"

Step(p, name) == [log EXCEPT ![p] = Append(@, <<name, epoch[p]>>)]

Goto(p, where) == [pc EXCEPT ![p] = where]

\* ---- initial state ------------------------------------------------------
\* no smoothed-metric run
MetricIdle ==
    /\ smoothed = [p \in MetricProcs |-> NewSmoothed(1)]
    /\ updates = [p \in MetricProcs |-> <<>>]
    /\ syncs = 0
    /\ dirty = FALSE

Init ==
    /\ world_size \in WorldSizes
    /\ start_epoch \in 0 .. MaxEpochs
    /\ num_epochs \in 0 .. MaxEpochs
    /\ \E f \in {Absent} \cup {Record(b, TRUE) : b \in StoredBests} :
           fs = [path |-> f, tmp |-> Absent]
    /\ pc = [p \in Procs |-> "resume"]
    /\ epoch = [p \in Procs |-> start_epoch]
    /\ best = [p \in Procs |-> Zero]
    /\ meter = [p \in Procs |-> NewMeter]
    /\ file0 = fs.path
    /\ lastVal = [p \in Procs |-> Zero]
    /\ seenMax = [p \in Procs |-> Zero]
    /\ writes = [p \in Procs |-> 0]
    /\ log = [p \in Procs |-> <<>>]
    /\ samples = [p \in Procs |-> NewMeter]
    /\ reads = {}
    /\ student_model \in {"student", "student_wrapper"}
    \* the device type decides the wrapping only in a non-distributed run
    /\ device_cuda \in (IF world_size > 1 THEN {TRUE} ELSE BOOLEAN)
    /\ training = [p \in Procs |-> TRUE]
    /\ modeBefore = [p \in Procs |-> TRUE]
    /\ raised = [p \in Procs |-> FALSE]
    /\ evalModel = [p \in Procs |-> "none"]
    /\ savedModels = {}
    /\ weights = [p \in Procs |-> InitialWeights]
    /\ ckpt_weights = InitialWeights
    /\ tested = [p \in Procs |-> NotTested]
    /\ MetricIdle

inputs == <<world_size, start_epoch, num_epochs, file0, student_model, device_cuda, metricVars>>

\* ---- distill(): lines 108-116 -------------------------------------------
Resume(p) ==
    /\ pc[p] = "resume"
    /\ best' = [best EXCEPT ![p] = ResumeBest(fs.path)]
    /\ reads' = IF fs.path.exists THEN reads \cup {fs.path} ELSE reads
    /\ pc' = Goto(p, AfterLoopTest(start_epoch))
    /\ UNCHANGED <<inputs, fs, epoch, meter, lastVal, seenMax, writes, log, samples>>
    /\ UNCHANGED <<training, modeBefore, raised, evalModel, savedModels, weights, ckpt_weights, tested>>

PreProcess(p) ==
    /\ pc[p] = "pre"
    /\ log' = Step(p, "pre")
    /\ pc' = Goto(p, "train")
    /\ UNCHANGED <<inputs, fs, epoch, best, meter, lastVal, seenMax, writes, samples, reads>>
    \* the collaborator's hook may put the student back in training mode
    /\ \E mode \in {TRUE, training[p]} : training' = [training EXCEPT ![p] = mode]
    /\ UNCHANGED <<modeBefore, raised, evalModel, savedModels, weights, ckpt_weights, tested>>

DistillOneEpoch(p) ==
    /\ pc[p] = "train"
    /\ log' = Step(p, "train")
    /\ pc' = Goto(p, "eval")
    /\ UNCHANGED <<inputs, fs, epoch, best, meter, lastVal, seenMax, writes, samples, reads>>
    /\ weights' = [weights EXCEPT ![p] = epoch[p]]
    /\ UNCHANGED <<training, modeBefore, raised, evalModel, savedModels, ckpt_weights, tested>>

\* ---- evaluate() ---------------------------------------------------------
EvalStart(p) ==
    /\ pc[p] = "eval"
    /\ log' = Step(p, "eval")
    /\ meter' = [meter EXCEPT ![p] = NewMeter]
    /\ samples' = [samples EXCEPT ![p] = NewMeter]
    /\ pc' = Goto(p, "eval_loop")
    /\ UNCHANGED <<inputs, fs, epoch, best, lastVal, seenMax, writes, reads>>
    /\ evalModel' = [evalModel EXCEPT ![p] = EvalModel(student_model)]
    /\ modeBefore' = [modeBefore EXCEPT ![p] = training[p]]
    /\ training' = [training EXCEPT ![p] = FALSE]
    /\ UNCHANGED <<raised, savedModels, weights, ckpt_weights, tested>>

\* the loop of lines 82-91 over this process's (non-empty) share of the
\* validation data, then the call of line 94 where the process waits
EvalLoop(p) ==
    /\ pc[p] = "eval_loop"
    /\ \E batches \in DataLoaders :
         /\ meter' = [meter EXCEPT ![p] = AfterBatches(@, batches, 1)]
         /\ samples' = [samples EXCEPT ![p] =
                          [count |-> NumSamples(batches, 1), total |-> NumCorrect(batches, 1)]]
    /\ pc' = Goto(p, "sync")
    /\ UNCHANGED <<inputs, fs, epoch, best, lastVal, seenMax, writes, log, reads>>
    /\ UNCHANGED <<training, modeBefore, raised, evalModel, savedModels, weights, ckpt_weights, tested>>

\* the all-reduce returns on every process once all of them have joined
Synchronize ==
    /\ \A p \in Procs : pc[p] = "sync"
    /\ meter' = EvalSynced(meter)
    /\ pc' = [p \in Procs |-> "decide"]
    /\ UNCHANGED <<inputs, fs, epoch, best, lastVal, seenMax, writes, log, samples, reads>>
    /\ UNCHANGED <<training, modeBefore, raised, evalModel, savedModels, weights, ckpt_weights, tested>>

\* ---- evaluate() returns; distill(): lines 119-124 -----------------------
Decide(p) ==
    /\ pc[p] = "decide"
    /\ LET val_top1_accuracy == global_avg(meter[p]) IN
         /\ lastVal' = [lastVal EXCEPT ![p] = val_top1_accuracy]
         /\ seenMax' = [seenMax EXCEPT ![p] = Max2(@, val_top1_accuracy)]
         /\ IF ShouldSave(p, val_top1_accuracy)
              THEN /\ best' = [best EXCEPT ![p] = val_top1_accuracy]
                   /\ writes' = [writes EXCEPT ![p] = @ + 1]
                   /\ log' = Step(p, "save")
                   /\ savedModels' = savedModels \cup {SavedModel}
                   /\ pc' = Goto(p, "save_open")
              ELSE /\ pc' = Goto(p, "post")
                   /\ UNCHANGED <<best, writes, log, savedModels>>
    /\ meter' = [meter EXCEPT ![p] = NewMeter]
    /\ samples' = [samples EXCEPT ![p] = NewMeter]
    /\ UNCHANGED <<inputs, fs, epoch, reads>>
    /\ evalModel' = [evalModel EXCEPT ![p] = "none"]
    /\ modeBefore' = [modeBefore EXCEPT ![p] = TRUE]
    /\ UNCHANGED <<training, raised, weights, ckpt_weights, tested>>

\* ---- save_ckpt: lines 125-126 -------------------------------------------
SaveOpen(p) ==
    /\ pc[p] = "save_open"
    /\ fs' = [fs EXCEPT ![SaveTarget] = Record(best[p], FALSE)]
    /\ pc' = Goto(p, "save_flush")
    /\ UNCHANGED <<inputs, epoch, best, meter, lastVal, seenMax, writes, log, samples, reads>>
    /\ UNCHANGED <<training, modeBefore, raised, evalModel, savedModels, weights, ckpt_weights, tested>>

SaveFlush(p) ==
    /\ pc[p] = "save_flush"
    /\ fs' = [fs EXCEPT ![SaveTarget] = Record(best[p], TRUE)]
    /\ pc' = Goto(p, "save_rename")
    /\ UNCHANGED <<inputs, epoch, best, meter, lastVal, seenMax, writes, log, samples, reads>>
    /\ UNCHANGED <<training, modeBefore, raised, evalModel, savedModels, weights, ckpt_weights, tested>>

SaveRename(p) ==
    /\ pc[p] = "save_rename"
    /\ fs' = [path |-> fs[SaveTarget], tmp |-> Absent]
    /\ pc' = Goto(p, "post")
    /\ UNCHANGED <<inputs, epoch, best, meter, lastVal, seenMax, writes, log, samples, reads>>
    /\ ckpt_weights' = weights[p]
    /\ UNCHANGED <<training, modeBefore, raised, evalModel, savedModels, weights, tested>>

\* ---- distill(): line 127 and the loop test of line 116 ------------------
PostProcess(p) ==
    /\ pc[p] = "post"
    /\ log' = Step(p, "post")
    /\ epoch' = [epoch EXCEPT ![p] = @ + 1]
    /\ lastVal' = [lastVal EXCEPT ![p] = Zero]
    /\ pc' = Goto(p, AfterLoopTest(epoch[p] + 1))
    /\ UNCHANGED <<inputs, fs, best, meter, seenMax, writes, samples, reads>>
    /\ UNCHANGED <<training, modeBefore, raised, evalModel, savedModels, weights, ckpt_weights, tested>>

\* ---- distill(): lines 129-135 -------------------------------------------
Barrier ==
    /\ NeedsBarrier
    /\ \A p \in Procs : pc[p] = "barrier"
    /\ log' = [p \in Procs |-> Append(log[p], <<"barrier", epoch[p]>>)]
    /\ pc' = [p \in Procs |-> "clean"]
    /\ UNCHANGED <<inputs, fs, epoch, best, meter, lastVal, seenMax, writes, samples, reads>>
    /\ UNCHANGED <<training, modeBefore, raised, evalModel, savedModels, weights, ckpt_weights, tested>>

SkipBarrier(p) ==
    /\ ~JoinsBarrier(p)
    /\ pc[p] = "barrier"
    /\ pc' = Goto(p, "clean")
    /\ UNCHANGED <<inputs, fs, epoch, best, meter, lastVal, seenMax, writes, log, samples, reads>>
    /\ UNCHANGED <<training, modeBefore, raised, evalModel, savedModels, weights, ckpt_weights, tested>>

CleanModules(p) ==
    /\ pc[p] = "clean"
    /\ log' = Step(p, "clean")
    /\ pc' = Goto(p, "load")
    /\ UNCHANGED <<inputs, fs, epoch, best, meter, lastVal, seenMax, writes, samples, reads>>
    /\ UNCHANGED <<training, modeBefore, raised, evalModel, savedModels, weights, ckpt_weights, tested>>

\* ---- main(): line 159 ---------------------------------------------------
LoadFinal(p) ==
    /\ pc[p] = "load"
    /\ IF fs.path.exists
         THEN /\ reads' = reads \cup {fs.path}
              /\ weights' = [weights EXCEPT ![p] = LoadedWeights(p)]
              /\ pc' = Goto(p, "test")
              /\ UNCHANGED raised
         ELSE /\ pc' = Goto(p, "failed")
              /\ raised' = [raised EXCEPT ![p] = TRUE]
              /\ UNCHANGED <<reads, weights>>
    /\ UNCHANGED <<inputs, fs, epoch, best, meter, lastVal, seenMax, writes, log, samples>>
    /\ UNCHANGED <<training, modeBefore, evalModel, savedModels, ckpt_weights, tested>>

\* ---- main(): lines 161-169, the test pass with its metric synchronisation
TestEvaluate ==
    /\ \A p \in Procs : pc[p] = "test"
    /\ tested' = weights
    /\ pc' = [p \in Procs |-> "done"]
    /\ UNCHANGED <<inputs, fs, epoch, best, meter, lastVal, seenMax, writes, log, samples, reads>>
    /\ UNCHANGED <<training, modeBefore, raised, evalModel, savedModels, weights, ckpt_weights>>

\* ---- a fatal error raised by the step a process is at: the exception
\* propagates out of main() and the process ends, its evaluation state is gone
Fail(p) ==
    /\ pc[p] \notin {"done", "failed"}
    /\ pc' = Goto(p, AfterFailure(p))
    /\ meter' = [meter EXCEPT ![p] = NewMeter]
    /\ samples' = [samples EXCEPT ![p] = NewMeter]
    /\ lastVal' = [lastVal EXCEPT ![p] = Zero]
    /\ UNCHANGED <<inputs, fs, epoch, best, seenMax, writes, log, reads>>
    /\ raised' = [raised EXCEPT ![p] = TRUE]
    /\ evalModel' = [evalModel EXCEPT ![p] = "none"]
    /\ modeBefore' = [modeBefore EXCEPT ![p] = TRUE]
    /\ UNCHANGED <<training, savedModels, weights, ckpt_weights, tested>>

\* the steps of a run in which nothing fails
Run ==
    \/ \E p \in Procs : Resume(p)
    \/ \E p \in Procs : PreProcess(p)
    \/ \E p \in Procs : DistillOneEpoch(p)
    \/ \E p \in Procs : EvalStart(p)
    \/ \E p \in Procs : EvalLoop(p)
    \/ Synchronize
    \/ \E p \in Procs : Decide(p)
    \/ \E p \in Procs : SaveOpen(p)
    \/ \E p \in Procs : SaveFlush(p)
    \/ \E p \in Procs : SaveRename(p)
    \/ \E p \in Procs : PostProcess(p)
    \/ Barrier
    \/ \E p \in Procs : SkipBarrier(p)
    \/ \E p \in Procs : CleanModules(p)
    \/ \E p \in Procs : LoadFinal(p)
    \/ TestEvaluate

Next ==
    \/ Run
    \/ \E p \in Procs : Fail(p)

Spec == Init /\ [][Next]_vars

\* a run without failures; each process keeps running until it waits for
\* its peers or has finished
LiveSpec == Init /\ [][Run]_vars /\ WF_vars(Run)

\* ---- smoothed metric and metric registry on their own -------------------
\* no training run: a single process that has finished
TrainingIdle ==
    /\ world_size = 1 /\ start_epoch = 0 /\ num_epochs = 0
    /\ fs = [path |-> Absent, tmp |-> Absent]
    /\ pc = [p \in Procs |-> "done"]
    /\ epoch = [p \in Procs |-> 0]
    /\ best = [p \in Procs |-> Zero]
    /\ meter = [p \in Procs |-> NewMeter]
    /\ file0 = fs.path
    /\ lastVal = [p \in Procs |-> Zero]
    /\ seenMax = [p \in Procs |-> Zero]
    /\ writes = [p \in Procs |-> 0]
    /\ log = [p \in Procs |-> <<>>]
    /\ samples = [p \in Procs |-> NewMeter]
    /\ reads = {}
    /\ student_model = "student"
    /\ device_cuda = FALSE
    /\ training = [p \in Procs |-> TRUE]
    /\ modeBefore = [p \in Procs |-> TRUE]
    /\ raised = [p \in Procs |-> FALSE]
    /\ evalModel = [p \in Procs |-> "none"]
    /\ savedModels = {}
    /\ weights = [p \in Procs |-> InitialWeights]
    /\ ckpt_weights = InitialWeights
    /\ tested = [p \in Procs |-> NotTested]

trainingVars == <<world_size, start_epoch, num_epochs, fs, pc, epoch, best, meter,
                 file0, lastVal, seenMax, writes, log, samples, reads,
                 student_model, device_cuda, modelVars>>

MetricInit ==
    /\ TrainingIdle
    /\ \E window_size \in 1 .. MaxWindow :
         smoothed = [p \in MetricProcs |-> NewSmoothed(window_size)]
    /\ updates = [p \in MetricProcs |-> <<>>]
    /\ syncs = 0
    /\ dirty = FALSE

NumUpdates == Len(updates[0]) + Len(updates[1])

MetricUpdate(p) ==
    /\ NumUpdates < MaxUpdates
    /\ \E value \in MetricVals, n \in MetricWeights :
         /\ smoothed' = [smoothed EXCEPT ![p] = SmoothedUpdate(@, value, n)]
         /\ updates' = [updates EXCEPT ![p] = Append(@, <<value, n>>)]
    /\ dirty' = TRUE
    /\ UNCHANGED <<trainingVars, syncs>>

MetricSynchronize ==
    /\ syncs < MaxSyncs
    /\ smoothed' = SmoothedSynchronized(smoothed)
    /\ syncs' = syncs + 1
    /\ dirty' = FALSE
    /\ UNCHANGED <<trainingVars, updates>>

MetricNext ==
    \/ \E p \in MetricProcs : MetricUpdate(p)
    \/ MetricSynchronize

MetricSpec == MetricInit /\ [][MetricNext]_vars

\* ---- vocabulary of the properties ---------------------------------------
InLog(p, entry) == \E i \in DOMAIN log[p] : log[p][i] = entry

CountSteps(p, name) == Cardinality({i \in DOMAIN log[p] : log[p][i][1] = name})

Live(p) == pc[p] # "failed"

SaveStates == {"save_open", "save_flush", "save_rename"}

\* the best_score a run starts from: the stored one, or 0.0 without checkpoint
InitialBest == IF file0.exists THEN file0.best ELSE Zero

\* the best score of the run so far: initial best and all validation scores
BestSoFar(p) == Max2(InitialBest, seenMax[p])

\* C1: on the main process an epoch invokes save_ckpt if and only if its
\* val_top1 strictly exceeds the best_score held at that moment; an equal or
\* lower score writes nothing, no other step writes, at most one write per epoch.
C1_WriteIffStrictlyBetter ==
    [][\A p \in Procs :
         /\ (pc[p] = "decide" /\ pc'[p] \notin {"decide", "failed"} /\ is_main_process(p))
              => writes'[p] = (IF Lt(best[p], global_avg(meter[p]))
                                THEN writes[p] + 1 ELSE writes[p])
         /\ (pc[p] # "decide" \/ ~is_main_process(p)) => writes'[p] = writes[p]
         /\ writes'[p] <= CountSteps(p, "eval")]_vars

\* a first epoch improved and was saved, the next epoch repeated the score
C1_Witness ==
    /\ pc[0] = "post" /\ epoch[0] = start_epoch + 1
    /\ InLog(0, <<"save", start_epoch>>) /\ writes[0] = 1
    /\ lastVal[0] = best[0]

\* C2: in a distributed run only rank 0 ever invokes save_ckpt, whatever
\* validation scores the other ranks observe.
C2_OnlyRankZeroWrites ==
    \A p \in Procs : p # 0 =>
        /\ writes[p] = 0
        /\ pc[p] \notin SaveStates
        /\ CountSteps(p, "save") = 0

C2_Witness ==
    /\ world_size > 1 /\ writes[0] >= 1
    /\ \E p \in Procs : p # 0 /\ pc[p] = "post" /\ Lt(best[p], lastVal[p])

\* C3 as stated: at the end of every epoch all processes hold the same
\* best_score, equal to the best validation score seen so far.
C3_AllAgreeOnBest ==
    \A p, q \in Procs :
        (pc[p] = "post" /\ pc[q] = "post" /\ epoch[p] = epoch[q])
          => (best[p] = best[q] /\ best[p] = BestSoFar(p))

\* C3 amended: at the end of every epoch the main process holds the best
\* score so far, every other process still holds the best_score it started
\* with, and all processes agree on the epoch's validation score.
C3_MainTracksBestOthersKeepInitial ==
    /\ \A p \in Procs : pc[p] = "post" =>
          best[p] = (IF is_main_process(p) THEN BestSoFar(p) ELSE InitialBest)
    /\ \A p, q \in Procs :
          (pc[p] = "post" /\ pc[q] = "post" /\ epoch[p] = epoch[q])
            => (lastVal[p] = lastVal[q] /\ seenMax[p] = seenMax[q])

C3_Witness ==
    /\ world_size > 1
    /\ \A p \in Procs : pc[p] = "post"
    /\ \E p \in Procs : best[p] # best[0] /\ Lt(best[p], BestSoFar(p))

\* C4: on the main process best_score never decreases, between epochs it is
\* the maximum of the initial best_score and all validation scores so far,
\* and a checkpoint that exists stores exactly that best_score.
EpochBoundary(p) ==
    pc[p] \in {"pre", "train", "eval", "eval_loop", "sync", "decide", "post",
               "barrier", "clean", "load", "done"}

C4_MainBestIsRunningMax ==
    /\ [](EpochBoundary(0) =>
            /\ best[0] = BestSoFar(0)
            /\ (fs.path.exists => fs.path.best = best[0]))
    /\ [][Leq(best[0], best'[0])]_vars

\* the score dropped after a write: best and the stored best stay
C4_Witness ==
    /\ pc[0] = "post" /\ writes[0] >= 1
    /\ Lt(lastVal[0], best[0]) /\ fs.path.best = best[0]

\* C5: best_score starts at 0.0 without a checkpoint and at the stored
\* best_score with one; while no epoch has scored above the initial best,
\* nothing is written and best_score is unchanged in memory and on disk.
C5_ResumeKeepsStoredBest ==
    /\ \A p \in Procs :
          (Live(p) /\ pc[p] # "resume" /\ Leq(seenMax[p], InitialBest))
            => best[p] = InitialBest
    /\ (pc[0] # "resume" /\ Leq(seenMax[0], InitialBest))
          => (writes[0] = 0 /\ fs.path = file0)

C5_Witness ==
    /\ file0.exists /\ pc[0] = "post" /\ writes[0] = 0
    /\ Lt(Zero, lastVal[0]) /\ Lt(lastVal[0], file0.best)
    /\ best[0] = file0.best /\ fs.path = file0
\* C6: after the metric synchronisation of evaluate() every process holds the
\* same top-1 score, and it is (sum over all processes and batches of
\* acc1 * batch_size) / (sum of batch_size), however the batches were split.
SampleWeightedAverage == Norm(SumTotal(samples, Procs), SumCount(samples, Procs))

C6_SyncedScoreIsGlobalAverage ==
    /\ (\A p \in Procs : pc[p] = "decide")
         => \A p \in Procs : global_avg(meter[p]) = SampleWeightedAverage
    /\ \A p, q \in Procs :
         (pc[p] = "post" /\ pc[q] = "post" /\ epoch[p] = epoch[q])
           => lastVal[p] = lastVal[q]

\* two processes with shares of different size and different local averages
C6_Witness ==
    /\ world_size > 1
    /\ \A p \in Procs : pc[p] = "decide"
    /\ \E p, q \in Procs :
         /\ samples[p].count # samples[q].count
         /\ Norm(samples[p].total, samples[p].count) # Norm(samples[q].total, samples[q].count)
         /\ global_avg(meter[p]) # Norm(samples[p].total, samples[p].count)

\* C7: in a distributed run no process is past the end-of-training barrier
\* before every process has finished all its epochs, the main process's last
\* checkpoint write included; a non-distributed run executes no barrier.
PastBarrier(p) == pc[p] \in {"clean", "load", "done"} \/ CountSteps(p, "clean") > 0

EpochsToRun == IF num_epochs > start_epoch THEN num_epochs - start_epoch ELSE 0

FinishedEpochs(p) == CountSteps(p, "post") = EpochsToRun /\ pc[p] # "resume"

C7_BarrierAfterAllEpochs ==
    /\ distributed =>
         \A p \in Procs : PastBarrier(p) =>
             /\ \A q \in Procs : FinishedEpochs(q)
             /\ pc[0] \notin SaveStates /\ ~fs.tmp.exists
    /\ ~distributed => \A p \in Procs : CountSteps(p, "barrier") = 0

C7_Witness ==
    /\ distributed /\ EpochsToRun >= 1
    /\ \A p \in Procs : pc[p] = "clean" /\ InLog(p, <<"barrier", num_epochs>>)
    /\ InLog(0, <<"save", num_epochs - 1>>)

\* C8: each process runs the epochs start_epoch .. num_epochs-1 once each in
\* increasing order, every epoch as pre_process, distillation pass,
\* validation, optional save, post_process, and clean_modules once at the end.
RECURSIVE EpochSteps(_, _)
EpochSteps(e, n) ==
    IF e >= n THEN <<>>
    ELSE <<<<"pre", e>>, <<"train", e>>, <<"eval", e>>, <<"post", e>>>> \o EpochSteps(e + 1, n)

ExpectedSteps == EpochSteps(start_epoch, num_epochs)

Mandatory(p) == SelectSeq(log[p], LAMBDA s : s[1] \notin {"save", "barrier", "clean"})

IsPrefix(s, t) == Len(s) <= Len(t) /\ SubSeq(t, 1, Len(s)) = s

C8_EpochAndStepOrder ==
    \A p \in Procs :
        /\ IsPrefix(Mandatory(p), ExpectedSteps)
        /\ \A i \in DOMAIN log[p] :
             /\ log[p][i][1] = "save" =>
                  /\ i > 1 /\ log[p][i - 1] = <<"eval", log[p][i][2]>>
                  /\ i < Len(log[p]) => log[p][i + 1] = <<"post", log[p][i][2]>>
             /\ log[p][i][1] = "clean" =>
                  /\ i = Len(log[p])
                  /\ Mandatory(p) = ExpectedSteps
        /\ pc[p] \in {"load", "done"} => CountSteps(p, "clean") = 1
        /\ pc[p] \in {"resume", "pre", "train", "eval", "eval_loop", "sync", "decide",
                     "post", "barrier", "clean"} \cup SaveStates
             => CountSteps(p, "clean") = 0

C8_Witness ==
    \E p \in Procs :
        /\ pc[p] = "done" /\ EpochsToRun = 2
        /\ InLog(p, <<"save", start_epoch>>)
        /\ ~InLog(p, <<"save", start_epoch + 1>>)

\* C9: whenever the training loop has completed, a checkpoint exists at the
\* student path, so the post-training load never finds the file absent.
C9_FinalLoadFindsCheckpoint ==
    \A p \in Procs : pc[p] = "load" => fs.path.exists

\* C10: the file at the student path, if present, is always a complete
\* record: each change of it installs the complete record of the main
\* process's current best_score, also when the main process fails during
\* save_ckpt, and no load ever observes a partial record.
C10_CheckpointAlwaysComplete ==
    /\ [](/\ fs.path.exists => fs.path.complete
          /\ \A r \in reads : r.exists /\ r.complete)
    /\ [][fs.path' # fs.path => fs.path' = Record(best[0], TRUE)]_vars

\* the main process failed in the middle of a write over an earlier record
C10_Witness ==
    /\ pc[0] = "failed"
    /\ fs.tmp.exists /\ ~fs.tmp.complete
    /\ fs.path.exists /\ fs.path # file0
\* ---- properties of the smoothed metric (MetricSpec) ----------------------
RECURSIVE SumVW(_, _)
SumVW(calls, i) ==
    IF i > Len(calls) THEN 0 ELSE calls[i][1] * calls[i][2] + SumVW(calls, i + 1)

RECURSIVE SumW(_, _)
SumW(calls, i) == IF i > Len(calls) THEN 0 ELSE calls[i][2] + SumW(calls, i + 1)

Min2(a, b) == IF a < b THEN a ELSE b

\* the values of the last n calls, oldest first
LastValues(calls, n) ==
    [i \in 1 .. Min2(n, Len(calls)) |-> calls[Len(calls) - Min2(n, Len(calls)) + i][1]]

\* C11: with at least one sample and for every window capacity, global_avg is
\* (sum of v*w) / (sum of w) over all update calls ever made; count and total
\* are never truncated by the window.
C11_GlobalAvgOverAllUpdates ==
    \A p \in MetricProcs :
        (syncs = 0 /\ Len(updates[p]) > 0) =>
            /\ smoothed[p].count = SumW(updates[p], 1)
            /\ smoothed[p].total = SumVW(updates[p], 1)
            /\ global_avg(smoothed[p]) = Norm(SumVW(updates[p], 1), SumW(updates[p], 1))

\* more calls than the window holds, with values that differ
C11_Witness ==
    \E p \in MetricProcs :
        /\ syncs = 0 /\ Len(updates[p]) > smoothed[p].window_size
        /\ updates[p][1][1] # updates[p][Len(updates[p])][1]
        /\ updates[p][1][2] = 2

\* C12: after k update calls with window capacity N the window holds exactly
\* the min(k, N) most recent values in insertion order, never more than N,
\* while count and total still cover every call.
C12_WindowHoldsMostRecent ==
    \A p \in MetricProcs :
        /\ smoothed[p].deque = LastValues(updates[p], smoothed[p].window_size)
        /\ Len(smoothed[p].deque) = Min2(Len(updates[p]), smoothed[p].window_size)
        /\ Len(smoothed[p].deque) <= smoothed[p].window_size
        /\ syncs = 0 => smoothed[p].count = SumW(updates[p], 1)

\* N + 1 calls on a window of capacity N
C12_Witness ==
    \E p \in MetricProcs :
        /\ Len(updates[p]) = smoothed[p].window_size + 1
        /\ updates[p][1][1] # updates[p][2][1]
        /\ syncs = 0

\* C13: a second synchronize_between_processes() with no update in between
\* leaves the global_avg of every process as the first one left it.
C13_SyncIdempotentOnGlobalAvg ==
    [][(syncs' = syncs + 1 /\ syncs >= 1 /\ ~dirty) =>
          \A p \in MetricProcs :
              smoothed[p].count > 0 =>
                  global_avg(smoothed'[p]) = global_avg(smoothed[p])]_vars

\* synchronised twice in a row after updates with different local averages;
\* count itself has grown with the second call
C13_Witness ==
    /\ syncs = 2 /\ ~dirty
    /\ Len(updates[0]) > 0 /\ Len(updates[1]) > 0
    /\ Norm(SumVW(updates[0], 1), SumW(updates[0], 1))
         # Norm(SumVW(updates[1], 1), SumW(updates[1], 1))
    /\ smoothed[0].count > SumW(updates[0], 1) + SumW(updates[1], 1)
\* ---- properties of the student model and of failures ---------------------
\* C14: evaluate() puts the model in inference mode and restores the mode the
\* model had before the call: when evaluate() returns in the epoch loop, the
\* student's training mode is the one it was called with.
C14_EvaluateRestoresMode ==
    \A p \in Procs : pc[p] = "decide" => training[p] = modeBefore[p]

\* C15: a failure raised by a step ends the process: it stays failed, runs no
\* further step (no post_process, epoch, save_ckpt, barrier or clean_modules),
\* and once the main process has failed the file at the checkpoint path is
\* the complete record of the last completed write and never changes.
C15_FailureIsFatal ==
    /\ [](\A p \in Procs : raised[p] => pc[p] = "failed")
    /\ [](pc[0] = "failed" =>
            /\ fs.path.exists => fs.path.complete
            /\ fs.path = file0 \/ fs.path.best = best[0] \/ Lt(fs.path.best, best[0]))
    /\ [][\A p \in Procs : pc[p] = "failed" =>
            /\ pc'[p] = "failed"
            /\ log'[p] = log[p] /\ writes'[p] = writes[p] /\ epoch'[p] = epoch[p]
            /\ is_main_process(p) => fs' = fs]_vars

\* the main process failed inside save_ckpt of its second epoch while
\* another process waits
C15_Witness ==
    /\ world_size > 1 /\ raised[0] /\ pc[0] = "failed"
    /\ fs.tmp.exists /\ writes[0] = 2
    /\ CountSteps(0, "post") = 1
    /\ \E p \in Procs : pc[p] = "barrier"

\* C16: every object handed to save_ckpt is the wrapper-free student model:
\* the underlying module of a wrapped student, the student itself otherwise,
\* never the wrapper evaluate() creates locally.
C16_SavedModelIsUnwrapped ==
    /\ \A model \in savedModels : ~check_if_wrapped(model) /\ model = "student"
    /\ \A p \in Procs : pc[p] \in SaveStates => evalModel[p] = "none"

C16_Witness ==
    /\ student_model = "student_wrapper" /\ distributed
    /\ savedModels # {} /\ pc[0] = "save_open"
    /\ \E p \in Procs : evalModel[p] = "eval_wrapper"
\* ---- collectives and termination (failure-free runs, LiveSpec) ----------
\* the metric synchronisations a process has completed: one per evaluate()
\* call it has returned from
SyncsJoined(p) ==
    CountSteps(p, "eval") - (IF pc[p] \in {"eval_loop", "sync"} THEN 1 ELSE 0)

\* C17: in a failure-free distributed run all processes execute the same
\* collectives (one metric synchronisation per epoch, then the barrier): at
\* every moment they have completed the same number of each, a process that
\* reached clean_modules has joined one synchronisation per epoch and one
\* barrier, and every process eventually reaches clean_modules.
C17_AllReachCleanModules ==
    distributed =>
        /\ [](\A p, q \in Procs :
                /\ SyncsJoined(p) = SyncsJoined(q)
                /\ CountSteps(p, "barrier") = CountSteps(q, "barrier"))
        /\ [](\A p \in Procs : CountSteps(p, "clean") = 1 =>
                /\ SyncsJoined(p) = EpochsToRun
                /\ CountSteps(p, "barrier") = 1)
        /\ <>(\A p \in Procs : CountSteps(p, "clean") = 1)

\* two epochs, the main process wrote a checkpoint the others did not, and
\* all processes have run clean_modules
C17_Witness ==
    /\ distributed /\ EpochsToRun = 2
    /\ writes[0] >= 1
    /\ \A p \in Procs :
         /\ CountSteps(p, "clean") = 1 /\ CountSteps(p, "barrier") = 1
         /\ SyncsJoined(p) = 2
         /\ ~is_main_process(p) => writes[p] = 0
\* ---- reads of the checkpoint file ---------------------------------------
\* the step is process p's load_ckpt at the start of distill()
ResumeRead(p) == pc[p] = "resume" /\ pc'[p] \notin {"resume", "failed"} /\ fs.path.exists

\* the step is process p's strict load_ckpt in main()
FinalRead(p) == pc[p] = "load" /\ pc'[p] = "test"

\* C18: no process reads the checkpoint file while the main process writes
\* it: a resume-time read happens before the main process's first write, a
\* post-training read happens after its last one (the main process has
\* finished all its epochs and is not inside save_ckpt).
C18_NoReadWhileWriting ==
    [][\A p \in Procs :
          /\ ResumeRead(p) => pc[0] \notin SaveStates /\ writes[0] = 0
          /\ FinalRead(p) =>
               /\ pc[0] \notin SaveStates /\ ~fs.tmp.exists
               /\ FinishedEpochs(0)
               /\ fs'.path = fs.path /\ fs.path \in reads']_vars

\* a non-main process has read, after the barrier, a checkpoint the main
\* process wrote in this run over the one read at resume time
C18_Witness ==
    /\ distributed /\ file0.exists /\ writes[0] >= 1
    /\ \E p \in Procs : ~is_main_process(p) /\ pc[p] = "test"
    /\ file0 \in reads /\ fs.path \in reads /\ fs.path # file0

\* ---- the final test pass -------------------------------------------------
LastSave(p) ==
    CHOOSE i \in DOMAIN log[p] :
        /\ log[p][i][1] = "save"
        /\ \A j \in DOMAIN log[p] : log[p][j][1] = "save" => j <= i

\* weights of the record at the student path after training: those of the
\* epoch of the main process's last save, or those of the file found there
StoredWeights ==
    IF writes[0] = 0 THEN InitialWeights ELSE log[0][LastSave(0)][2]

\* C19: in the final test pass every process evaluates the student with the
\* weights of the checkpoint stored at the student path after training, so
\* all processes test the same weights, whatever the last epoch left.
C19_TestUsesStoredCheckpoint ==
    \A p \in Procs : tested[p] # NotTested =>
        /\ fs.path.exists /\ fs.path.complete
        /\ tested[p] = StoredWeights
        /\ \A q \in Procs : tested[q] = tested[p]

\* the first of two epochs was saved and the second was not: the weights
\* tested are not those the last epoch left
C19_Witness ==
    /\ distributed /\ EpochsToRun = 2
    /\ \A p \in Procs : tested[p] = start_epoch /\ tested[p] # num_epochs - 1
====
